---- MODULE Spec2Model ----
(***************************************************************************)
(* Hierarchical document segmentation of sieguru/bfnai:                    *)
(* backend-python/services/chunker.py, chunk_document.                     *)
(*                                                                         *)
(* One behaviour of Spec is one call of chunk_document.  Init is the state *)
(* after the function's prologue (lines 26-34) for some parsed document,   *)
(* style mapping and options; every action is one whole iteration of the   *)
(* paragraph loop (lines 87-136), or the final flush and return (lines     *)
(* 138-142).  Paragraph positions are Python's (0-based); TLA+ sequences   *)
(* are 1-based, so paragraphs[j] of the code is paragraphs[j + 1] here.    *)
(* Texts are TLA+ strings: Len, \o and SubSeq are len(), + and slicing.    *)
(***************************************************************************)
EXTENDS Integers, Sequences, FiniteSets, TLC

(***************************************************************************)
(* Bounds of the model.                                                    *)
(***************************************************************************)
\* longest parsed document, in paragraphs
MaxParas == 3
\* largest overlapParagraphs option tried
MaxOverlap == 2
\* length of the short paragraph text
ShortLen == 3
\* length of the long paragraph text (longer than the heading-name limit)
LongLen == 101
\* most stored chunks of one document read by get_chunk_tree
MaxRows == 2
\* deepest stored hierarchy list, and the largest level in one
MaxDepth == 2
\* most non-empty paragraphs of an analysed document
MaxAnalysed == 2

(***************************************************************************)
(* Program constants.                                                      *)
(***************************************************************************)
\* estimate_tokens: len(text) // 4
CharsPerToken == 4
\* para['text'][:100]
HeadingNameLimit == 100
\* chunk['content'][:100] in get_chunk_tree
PreviewLimit == 100

(***************************************************************************)
(* Python values.                                                          *)
(***************************************************************************)
\* None, and an optional value v, as a sequence of length 0 or 1
None == << >>
Some(v) == << v >>

Max(a, b) == IF a >= b THEN a ELSE b

Min(a, b) == IF a <= b THEN a ELSE b

RECURSIVE Rep(_, _)
\* the string c * n
Rep(c, n) == IF n <= 0 THEN "" ELSE c \o Rep(c, n - 1)

\* the paragraph texts a document may hold
Texts == { Rep("a", ShortLen), Rep("b", LongLen) }

\* the style names a document may use
StyleNames == { "Title", "Heading 2", "Appendix", "Normal", "Caption", "Footer" }

\* the body-text configuration get_style_config falls back to
DefaultStyleConfig == [ headingLevel |-> None, isBodyText |-> TRUE, isIgnored |-> FALSE ]

\* the style mapping passed: one style per kind of configuration, and "Normal"
\* left unconfigured.  chunk_document reads a mapping only through the
\* configuration of each paragraph's style, so every assignment of these
\* configurations to the paragraphs of a document is reached.
ConfiguredMapping ==
    [ s \in { "Title", "Heading 2", "Appendix", "Caption", "Footer" } |->
        CASE s = "Title"     -> [ headingLevel |-> Some(1),  isBodyText |-> FALSE, isIgnored |-> FALSE ]
          [] s = "Heading 2" -> [ headingLevel |-> Some(2),  isBodyText |-> FALSE, isIgnored |-> FALSE ]
          [] s = "Appendix"  -> [ headingLevel |-> Some(-1), isBodyText |-> FALSE, isIgnored |-> FALSE ]
          [] s = "Caption"   -> [ headingLevel |-> None,     isBodyText |-> FALSE, isIgnored |-> TRUE ]
          [] s = "Footer"    -> [ headingLevel |-> Some(1),  isBodyText |-> FALSE, isIgnored |-> TRUE ] ]

\* a mapping that configures the title and the footer only: "Heading 2",
\* "Appendix", "Normal" and "Caption" are absent from it
PartlyConfiguredMapping ==
    [ s \in { "Title", "Footer" } |-> ConfiguredMapping[s] ]

StyleMappings == { ConfiguredMapping }

\* the maxChunkTokens options tried
MaxChunkTokensChoices == { -1, 0, 1, 2, 500 }

VARIABLES
    paragraphs,                 \* parsed_doc['paragraphs']
    style_mapping,              \* style_mapping
    max_chunk_tokens,           \* options['maxChunkTokens']
    overlap_paragraphs,         \* options['overlapParagraphs']
    chunks,                     \* chunks
    current_hierarchy,          \* current_hierarchy, bottom of the stack first
    current_chunk_paragraphs,   \* current_chunk_paragraphs
    current_chunk_start,        \* current_chunk_start
    i,                          \* the loop variable: the next paragraph to scan
    pc,                         \* "loop" while scanning, "done" after the return
    flushed,                    \* history: the accumulation each chunk was built from
    stored_chunks,              \* get_chunk_tree: the rows fetched, ordered by id
    tree,                       \* get_chunk_tree: the tree built so far
    chunk_pos,                  \* get_chunk_tree: the number of rows placed
    requests,                   \* process_document: each request's position and locals
    chunks_table,               \* the rows of the document in table chunks, by id
    chunk_index_unique,         \* whether the table rejects a second row of an index
    analysis,                   \* analyze_document_styles: its position and locals
    summary                     \* get_hierarchy_summary: the dictionary returned

vars == << paragraphs, style_mapping, max_chunk_tokens, overlap_paragraphs, chunks,
           current_hierarchy, current_chunk_paragraphs, current_chunk_start, i, pc,
           flushed, stored_chunks, tree, chunk_pos, requests, chunks_table,
           chunk_index_unique, analysis, summary >>

\* the variables of process_document and of the table it writes
storeVars == << requests, chunks_table, chunk_index_unique >>

\* no process_document request is being served and no document is analysed
NoRequests ==
    /\ analysis = << >>
    /\ summary = << >>
    /\ requests = << >>
    /\ chunks_table = << >>
    /\ chunk_index_unique = FALSE

\* the variables of get_chunk_tree
treeVars == << stored_chunks, tree, chunk_pos >>

\* the tree before any row is placed (models/chunk.py line 184)
EmptyTree == [ name |-> "root", chunks |-> << >>, nodes |-> << >> ]

inputs == << paragraphs, style_mapping, max_chunk_tokens, overlap_paragraphs >>

(***************************************************************************)
(* The heading detector: services/document_parser.py, _detect_heading_level *)
(***************************************************************************)
UpperCase == "ABCDEFGHIJKLMNOPQRSTUVWXYZ"
LowerCase == "abcdefghijklmnopqrstuvwxyz"

\* c.lower() of a one-character string
LowerChar(c) ==
    IF \E k \in 1..Len(UpperCase) : SubSeq(UpperCase, k, k) = c
    THEN LET k == CHOOSE k \in 1..Len(UpperCase) : SubSeq(UpperCase, k, k) = c
         IN  SubSeq(LowerCase, k, k)
    ELSE c

RECURSIVE ToLower(_)
\* style_name.lower()
ToLower(str) ==
    IF Len(str) = 0 THEN ""
    ELSE ToLower(SubSeq(str, 1, Len(str) - 1)) \o LowerChar(SubSeq(str, Len(str), Len(str)))

\* pattern in text
Contains(text, pattern) ==
    \E k \in 1..(Len(text) - Len(pattern) + 1) :
       SubSeq(text, k, k + Len(pattern) - 1) = pattern

\* heading_patterns, in the dictionary's insertion order
heading_patterns ==
    << << "heading 1", 1 >>, << "heading1", 1 >>, << "rubrik 1", 1 >>,
       << "titel", 1 >>, << "title", 1 >>,
       << "heading 2", 2 >>, << "heading2", 2 >>, << "rubrik 2", 2 >>,
       << "subtitle", 2 >>,
       << "heading 3", 3 >>, << "heading3", 3 >>, << "rubrik 3", 3 >>,
       << "heading 4", 4 >>, << "heading4", 4 >>, << "rubrik 4", 4 >>,
       << "heading 5", 5 >>, << "heading5", 5 >>, << "rubrik 5", 5 >>,
       << "heading 6", 6 >>, << "heading6", 6 >>, << "rubrik 6", 6 >> >>

\* the level of the first pattern found in the lower-cased name, or None
detect_heading_level(style_name) ==
    LET style_lower == ToLower(style_name)
        hits == { k \in 1..Len(heading_patterns) :
                     Contains(style_lower, heading_patterns[k][1]) }
    IN  IF hits = { } THEN None
        ELSE Some(heading_patterns[CHOOSE k \in hits : \A h \in hits : k <= h][2])

(***************************************************************************)
(* Helpers of chunk_document.                                              *)
(***************************************************************************)
\* mutant: the estimate is rounded up
estimate_tokens_RoundUp(text) == (Len(text) + CharsPerToken - 1) \div CharsPerToken

estimate_tokens(text) == Len(text) \div CharsPerToken

\* mutant: an unconfigured style falls back to the detector
get_style_config_Detects(mapping, style_name) ==
    IF style_name \in DOMAIN mapping THEN mapping[style_name]
    ELSE [ headingLevel |-> detect_heading_level(style_name),
           isBodyText   |-> detect_heading_level(style_name) = None,
           isIgnored    |-> FALSE ]

get_style_config(mapping, style_name) ==
    IF style_name \in DOMAIN mapping THEN mapping[style_name] ELSE DefaultStyleConfig

\* mutant: a style with a heading level is never skipped
IsIgnored_UnlessHeading(style_config) ==
    style_config.isIgnored /\ style_config.headingLevel = None

\* Python truth of style_config.get('isIgnored')
IsIgnored(style_config) == style_config.isIgnored

\* Python truth of style_config.get('headingLevel'): neither None nor 0
IsHeading(style_config) ==
    /\ style_config.headingLevel # None
    /\ style_config.headingLevel[1] # 0

RECURSIVE JoinWith(_, _)
\* sep.join(strs)
JoinWith(sep, strs) ==
    IF strs = << >> THEN ""
    ELSE IF Len(strs) = 1 THEN strs[1]
    ELSE strs[1] \o sep \o JoinWith(sep, Tail(strs))

\* '\n\n'.join(p['text'] for p in paras)
JoinContent(paras) == JoinWith("\n\n", [ k \in 1..Len(paras) |-> paras[k].text ])

build_hierarchy_path(hierarchy) ==
    IF hierarchy = << >> THEN ""
    ELSE JoinWith(" > ", [ k \in 1..Len(hierarchy) |-> hierarchy[k].name ])

build_hierarchy_json(hierarchy) ==
    [ k \in 1..Len(hierarchy) |-> [ name |-> hierarchy[k].name, level |-> hierarchy[k].level ] ]

\* mutant: the level of the bottom entry of the stack
get_hierarchy_level_Bottom(hierarchy) ==
    IF hierarchy = << >> THEN None ELSE Some(hierarchy[1].level)

get_hierarchy_level(hierarchy) ==
    IF hierarchy = << >> THEN None ELSE Some(hierarchy[Len(hierarchy)].level)

\* hashlib.sha256(content.encode()).hexdigest()[:16], uninterpreted
chunkHashOf(content) == << "sha256[:16]", content >>

\* mutant: 1-based chunk index
ChunkIndexOf_OneBased(chs) == Len(chs) + 1

\* 'chunkIndex': len(chunks)
ChunkIndexOf(chs) == Len(chs)

\* mutant: the hash is salted with the chunk's position
MakeChunk_HashOfPosition(chs, paras, hierarchy, start, para_end) ==
    LET content == JoinContent(paras) IN
    [ chunkIndex     |-> ChunkIndexOf(chs),
      content        |-> content,
      contentLength  |-> Len(content),
      tokenEstimate  |-> estimate_tokens(content),
      hierarchyPath  |-> build_hierarchy_path(hierarchy),
      hierarchyJson  |-> build_hierarchy_json(hierarchy),
      hierarchyLevel |-> get_hierarchy_level(hierarchy),
      paragraphStart |-> start,
      paragraphEnd   |-> para_end,
      chunkHash      |-> chunkHashOf(<< Len(chs), content >>) ]

\* the chunk dictionary flush_chunk builds
MakeChunk(chs, paras, hierarchy, start, para_end) ==
    LET content == JoinContent(paras) IN
    [ chunkIndex     |-> ChunkIndexOf(chs),
      content        |-> content,
      contentLength  |-> Len(content),
      tokenEstimate  |-> estimate_tokens(content),
      hierarchyPath  |-> build_hierarchy_path(hierarchy),
      hierarchyJson  |-> build_hierarchy_json(hierarchy),
      hierarchyLevel |-> get_hierarchy_level(hierarchy),
      paragraphStart |-> start,
      paragraphEnd   |-> para_end,
      chunkHash      |-> chunkHashOf(content) ]

\* chunks after flush_chunk(para_end)
flush_chunk(chs, paras, hierarchy, start, para_end) ==
    IF paras = << >> THEN chs
    ELSE Append(chs, MakeChunk(chs, paras, hierarchy, start, para_end))

\* the history of flushed accumulations after flush_chunk
flush_history(hist, paras) ==
    IF paras = << >> THEN hist ELSE Append(hist, paras)

RECURSIVE PopHierarchy_Strict(_, _)
\* mutant: pops only the deeper entries, keeping one of equal level
PopHierarchy_Strict(hierarchy, heading_level) ==
    IF hierarchy # << >> /\ hierarchy[Len(hierarchy)].level > heading_level
    THEN PopHierarchy_Strict(SubSeq(hierarchy, 1, Len(hierarchy) - 1), heading_level)
    ELSE hierarchy

\* mutant: at most the top entry is popped
PopHierarchy_TopOnly(hierarchy, heading_level) ==
    IF hierarchy # << >> /\ hierarchy[Len(hierarchy)].level >= heading_level
    THEN SubSeq(hierarchy, 1, Len(hierarchy) - 1)
    ELSE hierarchy

RECURSIVE PopHierarchy(_, _)
\* while current_hierarchy and current_hierarchy[-1]['level'] >= heading_level: pop
PopHierarchy(hierarchy, heading_level) ==
    IF hierarchy # << >> /\ hierarchy[Len(hierarchy)].level >= heading_level
    THEN PopHierarchy(SubSeq(hierarchy, 1, Len(hierarchy) - 1), heading_level)
    ELSE hierarchy

\* text[:100]
HeadingName(text) == SubSeq(text, 1, Min(Len(text), HeadingNameLimit))

\* mutant: a heading that closes open sections is not pushed
ApplyHeading_ClosesOnly(hierarchy, text, heading_level) ==
    IF PopHierarchy(hierarchy, heading_level) # hierarchy
    THEN PopHierarchy(hierarchy, heading_level)
    ELSE Append(hierarchy, [ name |-> HeadingName(text), level |-> heading_level ])

\* the stack after the heading paragraph is applied to it
ApplyHeading(hierarchy, text, heading_level) ==
    Append(PopHierarchy(hierarchy, heading_level),
           [ name |-> HeadingName(text), level |-> heading_level ])

\* the para_end the heading branch flushes with
HeadingFlushEnd(idx) == idx - 1

\* mutant: the size split flushes with the heading branch's i - 1
SizeFlushEnd_Previous(idx) == idx - 1

\* the para_end the size split flushes with
SizeFlushEnd(idx) == idx

\* the para_end the final flush uses
FinalFlushEnd(paras) == Len(paras) - 1

\* overlap_start = max(0, i - overlap_paragraphs + 1)
OverlapStart(idx, overlap) == Max(0, idx - overlap + 1)

\* mutant: the overlap loop re-adds headings
OverlapKeeps_Headings(mapping, p) ==
    ~IsIgnored(get_style_config(mapping, p.style))

\* whether the overlap loop re-adds paragraph p
OverlapKeeps(mapping, p) ==
    LET style_cfg == get_style_config(mapping, p.style) IN
    ~IsIgnored(style_cfg) /\ ~IsHeading(style_cfg)

RECURSIVE OverlapFrom_NewestFirst(_, _, _, _)
\* mutant: the overlap window is re-read from its newest paragraph backwards
OverlapFrom_NewestFirst(paras, mapping, j, idx) ==
    IF j > idx THEN << >>
    ELSE LET rest == OverlapFrom_NewestFirst(paras, mapping, j + 1, idx) IN
         IF j < Len(paras) /\ OverlapKeeps(mapping, paras[j + 1])
         THEN rest \o << paras[j + 1] >>
         ELSE rest

RECURSIVE OverlapFrom(_, _, _, _)
\* the paragraphs the loop over range(j, idx + 1) appends
OverlapFrom(paras, mapping, j, idx) ==
    IF j > idx THEN << >>
    ELSE LET rest == OverlapFrom(paras, mapping, j + 1, idx) IN
         IF j < Len(paras) /\ OverlapKeeps(mapping, paras[j + 1])
         THEN << paras[j + 1] >> \o rest
         ELSE rest

(***************************************************************************)
(* The call: prologue, loop iterations, final flush.                       *)
(***************************************************************************)
Documents ==
    UNION { { [ k \in 1..n |-> [ index |-> k - 1, text |-> f[k][2], style |-> f[k][1] ] ] :
                f \in [ 1..n -> StyleNames \X Texts ] } : n \in 0..MaxParas }

Init ==
    /\ paragraphs \in Documents
    /\ style_mapping \in StyleMappings
    /\ max_chunk_tokens \in MaxChunkTokensChoices
    /\ overlap_paragraphs \in 0..MaxOverlap
    /\ chunks = << >>
    /\ current_hierarchy = << >>
    /\ current_chunk_paragraphs = << >>
    /\ current_chunk_start = 0
    /\ i = 0
    /\ pc = "loop"
    /\ flushed = << >>
    /\ stored_chunks = << >>
    /\ tree = EmptyTree
    /\ chunk_pos = 0
    /\ NoRequests

\* the state after the prologue of a call with the partly configured mapping
InitPartlyConfigured ==
    /\ paragraphs \in Documents
    /\ style_mapping = PartlyConfiguredMapping
    /\ max_chunk_tokens \in { 1, 500 }
    /\ overlap_paragraphs \in 0..MaxOverlap
    /\ chunks = << >>
    /\ current_hierarchy = << >>
    /\ current_chunk_paragraphs = << >>
    /\ current_chunk_start = 0
    /\ i = 0
    /\ pc = "loop"
    /\ flushed = << >>
    /\ stored_chunks = << >>
    /\ tree = EmptyTree
    /\ chunk_pos = 0
    /\ NoRequests

\* the paragraph the loop is at, and its style configuration
para == paragraphs[i + 1]
style_config == get_style_config(style_mapping, para.style)

\* mutant: the loop stops one paragraph early
InLoop_StopsEarly == pc = "loop" /\ i < Len(paragraphs) - 1

InLoop == pc = "loop" /\ i < Len(paragraphs)

\* lines 90-92: an ignored style is skipped
SkipIgnored ==
    /\ InLoop
    /\ IsIgnored(style_config)
    /\ i' = i + 1
    /\ UNCHANGED << inputs, analysis, summary, storeVars, chunks, current_hierarchy, current_chunk_paragraphs,
                    current_chunk_start, pc, flushed, treeVars >>

\* mutant: the heading is applied to the stack before the accumulation is flushed
HeadingParagraph_AppliesFirst ==
    /\ InLoop
    /\ ~IsIgnored(style_config)
    /\ IsHeading(style_config)
    /\ current_hierarchy' = ApplyHeading(current_hierarchy, para.text,
                                         style_config.headingLevel[1])
    /\ chunks' = flush_chunk(chunks, current_chunk_paragraphs, current_hierarchy',
                             current_chunk_start, HeadingFlushEnd(i))
    /\ flushed' = flush_history(flushed, current_chunk_paragraphs)
    /\ current_chunk_start' = i
    /\ current_chunk_paragraphs' = << para >>
    /\ i' = i + 1
    /\ UNCHANGED << inputs, analysis, summary, storeVars, pc, treeVars >>

\* lines 96-112: a heading flushes the accumulation, updates the stack and
\* starts the next accumulation
HeadingParagraph ==
    /\ InLoop
    /\ ~IsIgnored(style_config)
    /\ IsHeading(style_config)
    /\ chunks' = flush_chunk(chunks, current_chunk_paragraphs, current_hierarchy,
                             current_chunk_start, HeadingFlushEnd(i))
    /\ flushed' = flush_history(flushed, current_chunk_paragraphs)
    /\ current_chunk_start' = i
    /\ current_hierarchy' = ApplyHeading(current_hierarchy, para.text,
                                         style_config.headingLevel[1])
    /\ current_chunk_paragraphs' = << para >>
    /\ i' = i + 1
    /\ UNCHANGED << inputs, analysis, summary, storeVars, pc, treeVars >>

\* lines 114-136: body text is appended; an oversized accumulation is flushed
\* and the overlap window re-read
BodyParagraph ==
    /\ InLoop
    /\ ~IsIgnored(style_config)
    /\ ~IsHeading(style_config)
    /\ LET start == IF current_chunk_paragraphs = << >> THEN i ELSE current_chunk_start
           acc   == Append(current_chunk_paragraphs, para)
       IN  IF estimate_tokens(JoinContent(acc)) > max_chunk_tokens
           THEN /\ chunks' = flush_chunk(chunks, acc, current_hierarchy, start, SizeFlushEnd(i))
                /\ flushed' = flush_history(flushed, acc)
                /\ IF overlap_paragraphs > 0
                   THEN /\ current_chunk_paragraphs' =
                               OverlapFrom(paragraphs, style_mapping,
                                           OverlapStart(i, overlap_paragraphs), i)
                        /\ current_chunk_start' = OverlapStart(i, overlap_paragraphs)
                   ELSE /\ current_chunk_paragraphs' = << >>
                        /\ current_chunk_start' = start
           ELSE /\ current_chunk_paragraphs' = acc
                /\ current_chunk_start' = start
                /\ UNCHANGED << chunks, flushed >>
    /\ i' = i + 1
    /\ UNCHANGED << inputs, analysis, summary, storeVars, current_hierarchy, pc, treeVars >>

\* lines 138-142: the final flush and the return
FlushFinal ==
    /\ pc = "loop"
    /\ i = Len(paragraphs)
    /\ chunks' = flush_chunk(chunks, current_chunk_paragraphs, current_hierarchy,
                             current_chunk_start, FinalFlushEnd(paragraphs))
    /\ flushed' = flush_history(flushed, current_chunk_paragraphs)
    /\ current_chunk_paragraphs' = << >>
    /\ pc' = "done"
    /\ UNCHANGED << inputs, analysis, summary, storeVars, current_hierarchy, current_chunk_start, i, treeVars >>

Next ==
    \/ SkipIgnored
    \/ HeadingParagraph
    \/ BodyParagraph
    \/ FlushFinal

\* the calls with the partly configured mapping
SpecPartlyConfigured == InitPartlyConfigured /\ [][Next]_vars

\* the state after the prologue of a call with an overlap window wider than
\* MaxOverlap
InitWideOverlap ==
    /\ paragraphs \in Documents
    /\ style_mapping = ConfiguredMapping
    /\ max_chunk_tokens \in { 1, 500 }
    /\ overlap_paragraphs = MaxOverlap + 1
    /\ chunks = << >>
    /\ current_hierarchy = << >>
    /\ current_chunk_paragraphs = << >>
    /\ current_chunk_start = 0
    /\ i = 0
    /\ pc = "loop"
    /\ flushed = << >>
    /\ stored_chunks = << >>
    /\ tree = EmptyTree
    /\ chunk_pos = 0
    /\ NoRequests

\* the calls with the wide overlap window
SpecWideOverlap == InitWideOverlap /\ [][Next]_vars

\* the interpreter runs the call to its return: a step that can be taken is taken
FairSpec == Init /\ [][Next]_vars /\ WF_vars(Next)

Spec == Init /\ [][Next]_vars

(***************************************************************************)
(* chunk_document as a function of its arguments: the same loop, folded    *)
(* over the paragraphs.  A scan state is the record of the locals chunks,  *)
(* current_hierarchy, current_chunk_paragraphs and current_chunk_start.    *)
(***************************************************************************)
ScanStart ==
    [ chunks |-> << >>, hierarchy |-> << >>, acc |-> << >>, start |-> 0 ]

\* one iteration of the loop (lines 87-136) at position idx
ScanParagraph(st, paras, mapping, max_tokens, overlap, idx) ==
    LET p   == paras[idx + 1]
        cfg == get_style_config(mapping, p.style)
    IN  IF IsIgnored(cfg) THEN st
        ELSE IF IsHeading(cfg)
        THEN [ chunks    |-> flush_chunk(st.chunks, st.acc, st.hierarchy, st.start,
                                         HeadingFlushEnd(idx)),
               hierarchy |-> ApplyHeading(st.hierarchy, p.text, cfg.headingLevel[1]),
               acc       |-> << p >>,
               start     |-> idx ]
        ELSE LET start == IF st.acc = << >> THEN idx ELSE st.start
                 acc   == Append(st.acc, p)
             IN  IF estimate_tokens(JoinContent(acc)) > max_tokens
                 THEN [ chunks    |-> flush_chunk(st.chunks, acc, st.hierarchy, start,
                                                  SizeFlushEnd(idx)),
                        hierarchy |-> st.hierarchy,
                        acc       |-> IF overlap > 0
                                      THEN OverlapFrom(paras, mapping,
                                                       OverlapStart(idx, overlap), idx)
                                      ELSE << >>,
                        start     |-> IF overlap > 0
                                      THEN OverlapStart(idx, overlap) ELSE start ]
                 ELSE [ st EXCEPT !.acc = acc, !.start = start ]

RECURSIVE ScanFrom(_, _, _, _, _, _)
\* the loop from position idx on, then the final flush (lines 138-142)
ScanFrom(st, paras, mapping, max_tokens, overlap, idx) ==
    IF idx >= Len(paras)
    THEN flush_chunk(st.chunks, st.acc, st.hierarchy, st.start, FinalFlushEnd(paras))
    ELSE ScanFrom(ScanParagraph(st, paras, mapping, max_tokens, overlap, idx),
                  paras, mapping, max_tokens, overlap, idx + 1)

\* the list chunk_document returns
chunk_document(paras, mapping, max_tokens, overlap) ==
    ScanFrom(ScanStart, paras, mapping, max_tokens, overlap, 0)

(***************************************************************************)
(* models/chunk.py: the stored rows written by create_chunk and the tree   *)
(* get_chunk_tree builds from them.  The tree is the root's chunk list and *)
(* the nodes below the root in creation order, each with the index of its  *)
(* parent (0 for the root), so that the children of a node, in the order   *)
(* of its 'children' list, are the nodes naming it as parent, in index     *)
(* order.                                                                  *)
(***************************************************************************)
\* json.dumps of a hierarchy list: the text stored in the column
json_dumps(hierarchy) == [ json |-> "array", items |-> hierarchy ]

\* json.loads of a stored text: the list of an array, the characters a string
\* iterates over
json_loads(stored_text) == stored_text.items

\* json.loads raises on a text that is no JSON
json_loads_raises(stored_text) == stored_text.json = "unparseable"

\* stored texts no create_chunk call writes: text that is no JSON, and the JSON
\* string "abc"
LegacyTexts ==
    { [ json |-> "unparseable", items |-> << >> ],
      [ json |-> "string", items |-> << "a", "b", "c" >> ] }

\* create_chunk: the row stored for a chunk; an empty list is stored as NULL
create_chunk(id, content, hierarchy_json) ==
    [ id             |-> id,
      content        |-> content,
      hierarchy_json |-> IF hierarchy_json # << >>
                         THEN Some(json_dumps(hierarchy_json)) ELSE None,
      token_estimate |-> estimate_tokens(content) ]

\* heading names in stored hierarchy lists
TreeNames == { "A", "B" }

\* the hierarchyJson lists chunk_document can emit: levels increase
HierarchyLists ==
    UNION { { h \in [ 1..n -> [ name : TreeNames, level : 1..MaxDepth ] ] :
                \A k \in 1..(n - 1) : h[k].level < h[k + 1].level } : n \in 0..MaxDepth }

\* the n rows of one document, ids in insertion order
StoredChunkLists(n) ==
    { [ k \in 1..n |-> create_chunk(k, f[k][1], f[k][2]) ] :
         f \in [ 1..n -> Texts \X HierarchyLists ] }

\* the state at line 184 of a call of get_chunk_tree
InitTree ==
    /\ paragraphs = << >>
    /\ style_mapping = ConfiguredMapping
    /\ max_chunk_tokens = 500
    /\ overlap_paragraphs = 0
    /\ chunks = << >>
    /\ current_hierarchy = << >>
    /\ current_chunk_paragraphs = << >>
    /\ current_chunk_start = 0
    /\ i = 0
    /\ flushed = << >>
    /\ pc = "tree"
    /\ \E n \in 0..MaxRows : stored_chunks \in StoredChunkLists(n)
    /\ tree = EmptyTree
    /\ chunk_pos = 0
    /\ NoRequests

\* the documents whose stored chunks the tree is built from: headings of two
\* levels and body text
PassDocuments ==
    { d \in Documents :
         \A k \in 1..Len(d) : d[k].style \in { "Title", "Heading 2", "Normal" } }

\* routes/documents.py 248-262: the rows one pass stores, ids in chunk order
rows_of_pass(pass_chunks) ==
    [ k \in 1..Len(pass_chunks) |->
        create_chunk(k, pass_chunks[k].content, pass_chunks[k].hierarchyJson) ]

\* the state at line 184 of a call of get_chunk_tree on a document whose rows
\* are those of one chunk_document pass
InitPassTree ==
    /\ paragraphs \in PassDocuments
    /\ style_mapping = ConfiguredMapping
    /\ max_chunk_tokens \in { 1, 500 }
    /\ overlap_paragraphs \in 0..MaxOverlap
    /\ chunks = chunk_document(paragraphs, style_mapping, max_chunk_tokens,
                               overlap_paragraphs)
    /\ current_hierarchy = << >>
    /\ current_chunk_paragraphs = << >>
    /\ current_chunk_start = 0
    /\ i = 0
    /\ flushed = << >>
    /\ pc = "tree"
    /\ stored_chunks = rows_of_pass(chunks)
    /\ tree = EmptyTree
    /\ chunk_pos = 0
    /\ NoRequests

\* the row the loop is at
chunk == stored_chunks[chunk_pos + 1]

\* lines 187-194: the hierarchy list of a row
hierarchy_of(row) ==
    IF row.hierarchy_json # None /\ ~json_loads_raises(row.hierarchy_json[1])
    THEN json_loads(row.hierarchy_json[1]) ELSE << >>

\* lines 209-210: node_info.get exists when the entries are objects
entries_have_get(row) == row.hierarchy_json[1].json = "array"

\* line 198
preview_of(content) ==
    IF Len(content) > PreviewLimit
    THEN SubSeq(content, 1, PreviewLimit) \o "..."
    ELSE content

\* lines 196-200
chunk_data(row) ==
    [ id |-> row.id, preview |-> preview_of(row.content),
      tokenEstimate |-> row.token_estimate ]

\* mutant: a child matches when both its name and its level are the entry's
MatchingChildren_SameLevel(nodes, current, node_info) ==
    { k \in 1..Len(nodes) : /\ nodes[k].parent = current
                            /\ nodes[k].name = node_info.name
                            /\ nodes[k].level = node_info.level }

\* lines 213-216: the children of current whose name is the entry's
MatchingChildren(nodes, current, node_info) ==
    { k \in 1..Len(nodes) : nodes[k].parent = current /\ nodes[k].name = node_info.name }

RECURSIVE walk_path_UnderRoot(_, _, _, _)
\* mutant: a missing child is created under the root
walk_path_UnderRoot(nodes, current, hierarchy, idx) ==
    IF idx > Len(hierarchy) THEN [ nodes |-> nodes, current |-> current ]
    ELSE LET node_info == hierarchy[idx]
             found     == MatchingChildren(nodes, current, node_info)
         IN  IF found # { }
             THEN walk_path_UnderRoot(nodes, CHOOSE k \in found : \A m \in found : k <= m,
                                      hierarchy, idx + 1)
             ELSE walk_path_UnderRoot(Append(nodes, [ name   |-> node_info.name,
                                                      level  |-> node_info.level,
                                                      parent |-> 0,
                                                      chunks |-> << >> ]),
                                      Len(nodes) + 1, hierarchy, idx + 1)

RECURSIVE walk_path(_, _, _, _)
\* lines 207-227: follow the list from entry idx on, creating missing children
walk_path(nodes, current, hierarchy, idx) ==
    IF idx > Len(hierarchy) THEN [ nodes |-> nodes, current |-> current ]
    ELSE LET node_info == hierarchy[idx]
             found     == MatchingChildren(nodes, current, node_info)
         IN  IF found # { }
             THEN walk_path(nodes, CHOOSE k \in found : \A m \in found : k <= m,
                            hierarchy, idx + 1)
             ELSE walk_path(Append(nodes, [ name   |-> node_info.name,
                                            level  |-> node_info.level,
                                            parent |-> current,
                                            chunks |-> << >> ]),
                            Len(nodes) + 1, hierarchy, idx + 1)

InTreeLoop == pc = "tree" /\ chunk_pos < Len(stored_chunks)

\* lines 202-204: a row without hierarchy goes to the root
AttachOrphan ==
    /\ InTreeLoop
    /\ hierarchy_of(chunk) = << >>
    /\ tree' = [ tree EXCEPT !.chunks = Append(@, chunk_data(chunk)) ]
    /\ chunk_pos' = chunk_pos + 1
    /\ UNCHANGED << inputs, analysis, summary, storeVars, chunks, current_hierarchy, current_chunk_paragraphs,
                    current_chunk_start, i, pc, flushed, stored_chunks >>

\* lines 205-230: a row with a hierarchy goes to the node its list leads to
AttachToPath ==
    /\ InTreeLoop
    /\ hierarchy_of(chunk) # << >>
    /\ entries_have_get(chunk)
    /\ LET w == walk_path(tree.nodes, 0, hierarchy_of(chunk), 1)
       IN  tree' = [ tree EXCEPT !.nodes =
                       [ w.nodes EXCEPT ![w.current].chunks = Append(@, chunk_data(chunk)) ] ]
    /\ chunk_pos' = chunk_pos + 1
    /\ UNCHANGED << inputs, analysis, summary, storeVars, chunks, current_hierarchy, current_chunk_paragraphs,
                    current_chunk_start, i, pc, flushed, stored_chunks >>

\* line 232
ReturnTree ==
    /\ pc = "tree"
    /\ chunk_pos = Len(stored_chunks)
    /\ pc' = "returned"
    /\ UNCHANGED << inputs, analysis, summary, storeVars, chunks, current_hierarchy, current_chunk_paragraphs,
                    current_chunk_start, i, flushed, treeVars >>

NextTree ==
    \/ AttachOrphan
    \/ AttachToPath
    \/ ReturnTree

TreeSpec == InitTree /\ [][NextTree]_vars

\* the calls on the rows of one pass
PassTreeSpec == InitPassTree /\ [][NextTree]_vars

\* the values the hierarchy_json column can hold in a database with legacy rows
LegacyColumns ==
    { None } \cup { Some(json_dumps(h)) : h \in HierarchyLists \ { << >> } }
             \cup { Some(t) : t \in LegacyTexts }

\* the n rows of a document some of whose rows were not written by create_chunk
LegacyChunkLists(n) ==
    { [ k \in 1..n |-> [ create_chunk(k, f[k][1], << >>) EXCEPT !.hierarchy_json = f[k][2] ] ] :
         f \in [ 1..n -> Texts \X LegacyColumns ] }

\* the state at line 184 of a call of get_chunk_tree on such a document
InitLegacyTree ==
    /\ paragraphs = << >>
    /\ style_mapping = ConfiguredMapping
    /\ max_chunk_tokens = 500
    /\ overlap_paragraphs = 0
    /\ chunks = << >>
    /\ current_hierarchy = << >>
    /\ current_chunk_paragraphs = << >>
    /\ current_chunk_start = 0
    /\ i = 0
    /\ flushed = << >>
    /\ pc = "tree"
    /\ \E n \in 0..MaxRows : stored_chunks \in LegacyChunkLists(n)
    /\ tree = EmptyTree
    /\ chunk_pos = 0
    /\ NoRequests

\* lines 208-210: the first entry of a loaded value that is no list of objects
\* has no get: the exception leaves get_chunk_tree
RaiseOnEntry ==
    /\ InTreeLoop
    /\ hierarchy_of(chunk) # << >>
    /\ ~entries_have_get(chunk)
    /\ pc' = "raised"
    /\ UNCHANGED << inputs, analysis, summary, storeVars, chunks, current_hierarchy, current_chunk_paragraphs,
                    current_chunk_start, i, flushed, treeVars >>

NextLegacyTree ==
    \/ AttachOrphan
    \/ AttachToPath
    \/ RaiseOnEntry
    \/ ReturnTree

LegacyTreeSpec == InitLegacyTree /\ [][NextLegacyTree]_vars

(***************************************************************************)
(* routes/documents.py, process_document: requests for one document, each  *)
(* segmenting the parsed document, deleting the document's rows and        *)
(* inserting its chunks one statement at a time (database.py: autocommit,  *)
(* one connection per statement, no lock).  The table's definition is not  *)
(* part of the sources: whether it has a unique key on document and chunk  *)
(* index is chosen at the start.                                           *)
(***************************************************************************)
\* two requests for the same document
Requests == { "first", "second" }

\* the documents processed: headings and body text
ProcessedDocuments ==
    { d \in Documents : \A k \in 1..Len(d) : d[k].style \in { "Title", "Normal" } }

\* data.get('chunkSize', 500) of a request
ChunkSizes == { 1, 500 }

\* data.get('chunkOverlap', 1)
DefaultChunkOverlap == 1

\* the row create_chunk inserts for a chunk; hierarchy_path is never NULL here
chunk_row(c) ==
    [ chunk_index    |-> c.chunkIndex,
      content        |-> c.content,
      hierarchy_path |-> Some(c.hierarchyPath),
      hierarchy_json |-> IF c.hierarchyJson # << >>
                         THEN Some(json_dumps(c.hierarchyJson)) ELSE None ]

\* rows the table may hold before the requests: none, the rows of an earlier
\* pass, or a legacy row with a NULL path
ExistingRows ==
    { << >>,
      << [ chunk_index |-> 0, content |-> Rep("a", ShortLen),
           hierarchy_path |-> Some("A"),
           hierarchy_json |-> Some(json_dumps(<< [ name |-> "A", level |-> 1 ] >>)) ] >>,
      << [ chunk_index |-> 0, content |-> Rep("a", ShortLen),
           hierarchy_path |-> None, hierarchy_json |-> None ] >> }

\* the state when the requests have read their options (lines 204-206)
InitProcess ==
    /\ paragraphs \in ProcessedDocuments
    /\ style_mapping = ConfiguredMapping
    /\ max_chunk_tokens = 500
    /\ overlap_paragraphs = DefaultChunkOverlap
    /\ chunks = << >>
    /\ current_hierarchy = << >>
    /\ current_chunk_paragraphs = << >>
    /\ current_chunk_start = 0
    /\ i = 0
    /\ flushed = << >>
    /\ pc = "serving"
    /\ stored_chunks = << >>
    /\ tree = EmptyTree
    /\ chunk_pos = 0
    /\ requests \in [ Requests -> { [ pc |-> "chunking", chunk_size |-> size,
                                      chunks |-> << >>, pos |-> 0 ] : size \in ChunkSizes } ]
    /\ chunks_table \in ExistingRows
    /\ chunk_index_unique \in BOOLEAN
    /\ analysis = << >>
    /\ summary = << >>

\* lines 237-240: the request segments the parsed document
SegmentDocument(r) ==
    /\ pc = "serving"
    /\ requests[r].pc = "chunking"
    /\ requests' = [ requests EXCEPT
                       ![r].chunks = chunk_document(paragraphs, style_mapping,
                                                    requests[r].chunk_size,
                                                    overlap_paragraphs),
                       ![r].pc = "deleting" ]
    /\ UNCHANGED << inputs, analysis, summary, chunks, current_hierarchy, current_chunk_paragraphs,
                    current_chunk_start, i, pc, flushed, treeVars, chunks_table,
                    chunk_index_unique >>

\* line 243 and models/chunk.py 111-114: DELETE of the document's rows
DeleteExisting(r) ==
    /\ pc = "serving"
    /\ requests[r].pc = "deleting"
    /\ chunks_table' = << >>
    /\ requests' = [ requests EXCEPT ![r].pc = "inserting" ]
    /\ UNCHANGED << inputs, analysis, summary, chunks, current_hierarchy, current_chunk_paragraphs,
                    current_chunk_start, i, pc, flushed, treeVars, chunk_index_unique >>

\* lines 248-262: one create_chunk call; with a unique key a second row of the
\* same index raises and the request ends with the error response (319-322)
InsertChunk(r) ==
    /\ pc = "serving"
    /\ requests[r].pc = "inserting"
    /\ requests[r].pos < Len(requests[r].chunks)
    /\ LET row == chunk_row(requests[r].chunks[requests[r].pos + 1])
       IN  IF /\ chunk_index_unique
              /\ \E k \in 1..Len(chunks_table) :
                    chunks_table[k].chunk_index = row.chunk_index
           THEN /\ requests' = [ requests EXCEPT ![r].pc = "failed" ]
                /\ UNCHANGED chunks_table
           ELSE /\ chunks_table' = Append(chunks_table, row)
                /\ requests' = [ requests EXCEPT ![r].pos = @ + 1 ]
    /\ UNCHANGED << inputs, analysis, summary, chunks, current_hierarchy, current_chunk_paragraphs,
                    current_chunk_start, i, pc, flushed, treeVars, chunk_index_unique >>

\* lines 264-317: every chunk is inserted; the request answers
FinishRequest(r) ==
    /\ pc = "serving"
    /\ requests[r].pc = "inserting"
    /\ requests[r].pos = Len(requests[r].chunks)
    /\ requests' = [ requests EXCEPT ![r].pc = "done" ]
    /\ UNCHANGED << inputs, analysis, summary, chunks, current_hierarchy, current_chunk_paragraphs,
                    current_chunk_start, i, pc, flushed, treeVars, chunks_table,
                    chunk_index_unique >>

NextProcess ==
    \E r \in Requests :
       \/ SegmentDocument(r)
       \/ DeleteExisting(r)
       \/ InsertChunk(r)
       \/ FinishRequest(r)

ProcessSpec == InitProcess /\ [][NextProcess]_vars

(***************************************************************************)
(* services/document_parser.py, analyze_document_styles: the styles of a   *)
(* document in first-seen order, each with its occurrence count and the    *)
(* level the detector suggests, sorted by count.                           *)
(***************************************************************************)
\* style names as word processors write them, some in a localized or derived
\* form
StyleNameCores ==
    { "Heading 1", "Heading 2", "Heading 3", "Heading 4", "Heading 5", "Heading 6",
      "heading1", "HEADING 3", "Heading 7", "Heading 10", "Heading",
      "Rubrik 1", "Rubrik 4", "RUBRIK 6", "Rubrik",
      "Title", "Titel", "Subtitle", "SUBTITLE",
      "Normal", "Body Text", "Caption", "List Paragraph" }

AnalysedStyleNames ==
    { core \o suf : core \in StyleNameCores, suf \in { "", " Char" } }

\* the state before the loop of analyze_document_styles (line 52)
InitAnalysis ==
    /\ paragraphs = << >>
    /\ style_mapping = ConfiguredMapping
    /\ max_chunk_tokens = 500
    /\ overlap_paragraphs = 0
    /\ chunks = << >>
    /\ current_hierarchy = << >>
    /\ current_chunk_paragraphs = << >>
    /\ current_chunk_start = 0
    /\ i = 0
    /\ flushed = << >>
    /\ pc = "analysing"
    /\ stored_chunks = << >>
    /\ tree = EmptyTree
    /\ chunk_pos = 0
    /\ requests = << >>
    /\ chunks_table = << >>
    /\ chunk_index_unique = FALSE
    /\ summary = << >>
    /\ \E n \in 0..MaxAnalysed :
          analysis \in { [ paragraph_styles |-> names, pos |-> 0, style_info |-> << >>,
                           styles |-> << >> ] : names \in [ 1..n -> AnalysedStyleNames ] }

\* the position in style_info of a style name, 0 when it is not there
StyleInfoIndex(style_info, style_name) ==
    IF \E k \in 1..Len(style_info) : style_info[k].style_name = style_name
    THEN CHOOSE k \in 1..Len(style_info) : style_info[k].style_name = style_name
    ELSE 0

\* lines 54-69: one non-empty paragraph
AnalyseParagraph ==
    /\ pc = "analysing"
    /\ analysis.pos < Len(analysis.paragraph_styles)
    /\ LET style_name == analysis.paragraph_styles[analysis.pos + 1]
           seen       == StyleInfoIndex(analysis.style_info, style_name)
       IN  analysis' =
             [ analysis EXCEPT
                 !.pos = @ + 1,
                 !.style_info =
                    IF seen = 0
                    THEN Append(@, [ style_name       |-> style_name,
                                     occurrence_count |-> 1,
                                     heading_level    |-> detect_heading_level(style_name) ])
                    ELSE [ @ EXCEPT ![seen].occurrence_count = @ + 1 ] ]
    /\ UNCHANGED << inputs, chunks, current_hierarchy, current_chunk_paragraphs,
                    current_chunk_start, i, pc, flushed, treeVars, storeVars, summary >>

RECURSIVE SortedByCount(_)
\* lines 72-76: sorted(..., key=occurrence_count, reverse=True), a stable sort
SortedByCount(style_info) ==
    IF style_info = << >> THEN << >>
    ELSE LET first == CHOOSE k \in 1..Len(style_info) :
                         /\ \A m \in 1..Len(style_info) :
                               style_info[m].occurrence_count <= style_info[k].occurrence_count
                         /\ \A m \in 1..(k - 1) :
                               style_info[m].occurrence_count < style_info[k].occurrence_count
         IN  << style_info[first] >> \o
             SortedByCount(SubSeq(style_info, 1, first - 1) \o
                           SubSeq(style_info, first + 1, Len(style_info)))

\* lines 71-78
ReturnStyles ==
    /\ pc = "analysing"
    /\ analysis.pos = Len(analysis.paragraph_styles)
    /\ analysis' = [ analysis EXCEPT !.styles = SortedByCount(analysis.style_info) ]
    /\ pc' = "analysed"
    /\ UNCHANGED << inputs, chunks, current_hierarchy, current_chunk_paragraphs,
                    current_chunk_start, i, flushed, treeVars, storeVars, summary >>

NextAnalysis ==
    \/ AnalyseParagraph
    \/ ReturnStyles

AnalysisSpec == InitAnalysis /\ [][NextAnalysis]_vars

(***************************************************************************)
(* models/chunk.py, get_hierarchy_summary: one aggregate query over the    *)
(* document's rows.                                                        *)
(***************************************************************************)
\* the paths a stored row can have: NULL, the empty path, a path
StoredPaths == { None, Some(""), Some("A"), Some("A > B") }

\* the n rows of a document
SummarisedRows(n) ==
    { [ k \in 1..n |-> [ chunk_index |-> k - 1, content |-> f[k][1],
                         hierarchy_path |-> f[k][2], hierarchy_json |-> None ] ] :
         f \in [ 1..n -> Texts \X StoredPaths ] }

\* the state before the query
InitSummary ==
    /\ paragraphs = << >>
    /\ style_mapping = ConfiguredMapping
    /\ max_chunk_tokens = 500
    /\ overlap_paragraphs = 0
    /\ chunks = << >>
    /\ current_hierarchy = << >>
    /\ current_chunk_paragraphs = << >>
    /\ current_chunk_start = 0
    /\ i = 0
    /\ flushed = << >>
    /\ pc = "summarising"
    /\ stored_chunks = << >>
    /\ tree = EmptyTree
    /\ chunk_pos = 0
    /\ requests = << >>
    /\ chunk_index_unique = FALSE
    /\ analysis = << >>
    /\ summary = << >>
    /\ \E n \in 0..MaxRows : chunks_table \in SummarisedRows(n)

\* COUNT(*): the number of rows
sql_count(table) == Len(table)

\* line 241: the CASE of chunks with hierarchy
with_hierarchy_case(row) ==
    IF row.hierarchy_path # None /\ row.hierarchy_path[1] # "" THEN 1 ELSE 0

\* mutant: only an empty path counts as without hierarchy
without_hierarchy_case_EmptyOnly(row) ==
    IF row.hierarchy_path # None /\ row.hierarchy_path[1] = "" THEN 1 ELSE 0

\* line 242: the CASE of chunks without hierarchy
without_hierarchy_case(row) ==
    IF row.hierarchy_path = None \/ row.hierarchy_path[1] = "" THEN 1 ELSE 0

RECURSIVE sum_cases(_, _)
sum_cases(cases, k) == IF k = 0 THEN 0 ELSE cases[k] + sum_cases(cases, k - 1)

\* SUM(...): NULL over no rows
sql_sum(cases) == IF cases = << >> THEN None ELSE Some(sum_cases(cases, Len(cases)))

\* value or 0
or_zero(value) == IF value = None \/ value[1] = 0 THEN 0 ELSE value[1]

get_hierarchy_summary(table) ==
    [ totalChunks |-> or_zero(Some(sql_count(table))),
      chunksWithHierarchy |->
          or_zero(sql_sum([ k \in 1..Len(table) |-> with_hierarchy_case(table[k]) ])),
      chunksWithoutHierarchy |->
          or_zero(sql_sum([ k \in 1..Len(table) |-> without_hierarchy_case(table[k]) ])) ]

\* lines 237-251: the query and the dictionary built from its row
GetHierarchySummary ==
    /\ pc = "summarising"
    /\ summary' = Some(get_hierarchy_summary(chunks_table))
    /\ pc' = "summarised"
    /\ UNCHANGED << inputs, analysis, chunks, current_hierarchy, current_chunk_paragraphs,
                    current_chunk_start, i, flushed, treeVars, storeVars >>

\* the table changes between queries: a row is added or the rows are deleted
TableChanges ==
    /\ pc = "summarised"
    /\ \/ chunks_table' = << >>
       \/ /\ Len(chunks_table) < MaxRows
          /\ \E row \in { r[1] : r \in SummarisedRows(1) } :
                chunks_table' = Append(chunks_table,
                                       [ row EXCEPT !.chunk_index = Len(chunks_table) ])
    /\ pc' = "summarising"
    /\ UNCHANGED << inputs, analysis, summary, chunks, current_hierarchy,
                    current_chunk_paragraphs, current_chunk_start, i, flushed, treeVars,
                    requests, chunk_index_unique >>

NextSummary ==
    \/ GetHierarchySummary
    \/ TableChanges

SummarySpec == InitSummary /\ [][NextSummary]_vars

(***************************************************************************)
(* Vocabulary of the properties: the role a paragraph has under the        *)
(* mapping, read off the mapping itself rather than through the helpers    *)
(* above.                                                                  *)
(***************************************************************************)
Configured(p) == p.style \in DOMAIN style_mapping

RoleOf(p) ==
    IF ~Configured(p) THEN "Body"
    ELSE IF style_mapping[p.style].isIgnored THEN "Ignored"
    ELSE IF style_mapping[p.style].headingLevel \in { None, Some(0) } THEN "Body"
    ELSE "Heading"

\* the configured level of a Heading paragraph
LevelOf(p) == style_mapping[p.style].headingLevel[1]

\* the first 100 characters of a text
First100(text) == IF Len(text) > HeadingNameLimit THEN SubSeq(text, 1, HeadingNameLimit) ELSE text

Last(seq) == seq[Len(seq)]

\* the Body paragraphs of a list of paragraphs, in order
BodiesOf(paras) == SelectSeq(paras, LAMBDA p : RoleOf(p) = "Body")

\* the last n elements of a sequence (all of it when it is shorter)
LastN(seq, n) == SubSeq(seq, Max(1, Len(seq) - n + 1), Len(seq))

\* chunk c (1-based) was emitted by a size split: it is over the limit
SizeSplit(c) == chunks[c].tokenEstimate > max_chunk_tokens

\* the step about to be taken scans a paragraph of the given role
Scanning(role) == InLoop /\ RoleOf(para) = role

\* every chunk's content is that of the accumulation recorded for it
HistoryMatches ==
    /\ Len(flushed) = Len(chunks)
    /\ \A c \in 1..Len(chunks) : chunks[c].content = JoinContent(flushed[c])

(***************************************************************************)
(* C1: when a Heading paragraph is scanned while the accumulation is       *)
(* non-empty, the accumulation is emitted as one chunk whose               *)
(* hierarchyPath, hierarchyJson and hierarchyLevel are those of the stack  *)
(* as it was before the heading is applied.                                *)
(***************************************************************************)
C1_HeadingFlushesUnderPreviousStack ==
    [][ (Scanning("Heading") /\ current_chunk_paragraphs # << >>) =>
          /\ Len(chunks') = Len(chunks) + 1
          /\ SubSeq(chunks', 1, Len(chunks)) = chunks
          /\ Last(chunks').content = JoinContent(current_chunk_paragraphs)
          /\ Last(chunks').hierarchyJson = current_hierarchy
          /\ Last(chunks').hierarchyPath = build_hierarchy_path(current_hierarchy)
          /\ Last(chunks').hierarchyLevel =
                 (IF current_hierarchy = << >> THEN None
                  ELSE Some(Last(current_hierarchy).level)) ]_vars

\* a heading has just flushed a chunk tagged with a non-empty stack that the
\* heading then changed
C1_Witness ==
    /\ pc = "loop" /\ i > 0
    /\ RoleOf(paragraphs[i]) = "Heading"
    /\ current_chunk_paragraphs = << paragraphs[i] >>
    /\ chunks # << >>
    /\ ~SizeSplit(Len(chunks))
    /\ Last(chunks).hierarchyJson # << >>
    /\ Last(chunks).hierarchyJson # current_hierarchy

(***************************************************************************)
(* C2: with overlapParagraphs = 0 and two Body paragraphs that exceed      *)
(* maxChunkTokens only when joined, the run emits two chunks, the first    *)
(* holding only the first paragraph and the second only the second, both   *)
(* with an empty hierarchyPath.                                            *)
(***************************************************************************)
C2_ScenarioB_TwoChunks ==
    ( /\ pc = "done"
      /\ max_chunk_tokens > 0
      /\ overlap_paragraphs = 0
      /\ Len(paragraphs) = 2
      /\ RoleOf(paragraphs[1]) = "Body" /\ RoleOf(paragraphs[2]) = "Body"
      /\ Len(paragraphs[1].text) \div CharsPerToken <= max_chunk_tokens
      /\ Len(paragraphs[2].text) \div CharsPerToken <= max_chunk_tokens
      /\ Len(paragraphs[1].text \o "\n\n" \o paragraphs[2].text) \div CharsPerToken
             > max_chunk_tokens )
    => /\ Len(chunks) = 2
       /\ chunks[1].content = paragraphs[1].text
       /\ chunks[2].content = paragraphs[2].text
       /\ chunks[1].hierarchyPath = "" /\ chunks[2].hierarchyPath = ""

(***************************************************************************)
(* C3: when maxChunkTokens > 0 and no single paragraph's token estimate    *)
(* exceeds it, every emitted chunk has tokenEstimate <= maxChunkTokens.    *)
(***************************************************************************)
C3_ChunksSizeBounded ==
    ( /\ max_chunk_tokens > 0
      /\ \A k \in 1..Len(paragraphs) :
             Len(paragraphs[k].text) \div CharsPerToken <= max_chunk_tokens )
    => \A c \in 1..Len(chunks) : chunks[c].tokenEstimate <= max_chunk_tokens

(***************************************************************************)
(* C4: with overlapParagraphs = k > 0 (and maxChunkTokens > 0), the        *)
(* accumulation that a size split leaves behind (the beginning of the next *)
(* emitted chunk) is the last k Body paragraphs of the chunk just emitted, *)
(* in order, and nothing else.                                             *)
(***************************************************************************)
C4_OverlapIsLastBodiesOfPreviousChunk ==
    [][ ( /\ Scanning("Body")
          /\ max_chunk_tokens > 0
          /\ overlap_paragraphs > 0
          /\ Len(chunks') = Len(chunks) + 1 )
        => current_chunk_paragraphs' =
               LastN(BodiesOf(Last(flushed')), overlap_paragraphs) ]_vars

(***************************************************************************)
(* C5: every Heading paragraph is in exactly one emitted chunk, as its     *)
(* first paragraph, and that chunk's hierarchyJson ends with the heading's *)
(* name cut to 100 characters and its level; no accumulation and no chunk  *)
(* holds a Heading paragraph after its first position.                     *)
(***************************************************************************)
C5_HeadingOpensExactlyOneChunk ==
    /\ HistoryMatches
    /\ \A k \in 2..Len(current_chunk_paragraphs) :
           RoleOf(current_chunk_paragraphs[k]) # "Heading"
    /\ \A c \in 1..Len(flushed) : \A k \in 2..Len(flushed[c]) :
           RoleOf(flushed[c][k]) # "Heading"
    /\ pc = "done" =>
         \A j \in 1..Len(paragraphs) :
            RoleOf(paragraphs[j]) = "Heading" =>
               \E c \in 1..Len(flushed) :
                  /\ flushed[c][1] = paragraphs[j]
                  /\ \A d \in 1..Len(flushed) : \A k \in 1..Len(flushed[d]) :
                         flushed[d][k] = paragraphs[j] => (d = c /\ k = 1)
                  /\ chunks[c].hierarchyJson # << >>
                  /\ Last(chunks[c].hierarchyJson) =
                         [ name  |-> First100(paragraphs[j].text),
                           level |-> LevelOf(paragraphs[j]) ]

\* a run has ended in which a heading longer than 100 characters lay inside
\* the overlap window of a size split
C5_Witness ==
    /\ pc = "done"
    /\ overlap_paragraphs >= 2
    /\ \E j \in 1..(Len(paragraphs) - 1) :
          /\ RoleOf(paragraphs[j]) = "Heading"
          /\ Len(paragraphs[j].text) > HeadingNameLimit
          /\ RoleOf(paragraphs[j + 1]) = "Body"
          /\ \E c \in 1..Len(chunks) :
                /\ SizeSplit(c)
                /\ Last(flushed[c]) = paragraphs[j + 1]
                /\ c < Len(chunks)

(***************************************************************************)
(* C6: in every emitted chunk the levels of hierarchyJson strictly         *)
(* increase from the first entry to the last, whatever non-zero levels the *)
(* mapping supplies and in whatever order the headings come.               *)
(***************************************************************************)
C6_HierarchyLevelsStrictlyIncrease ==
    \A c \in 1..Len(chunks) :
       \A k \in 1..(Len(chunks[c].hierarchyJson) - 1) :
          chunks[c].hierarchyJson[k].level < chunks[c].hierarchyJson[k + 1].level

\* a chunk tagged two levels deep, one of them negative, emitted after a
\* heading of a level not above an earlier heading's
C6_Witness ==
    /\ pc = "done"
    /\ \E c \in 1..Len(chunks) :
          /\ Len(chunks[c].hierarchyJson) >= 2
          /\ chunks[c].hierarchyJson[1].level < 0
    /\ \E j, k \in 1..Len(paragraphs) :
          /\ j < k
          /\ RoleOf(paragraphs[j]) = "Heading" /\ RoleOf(paragraphs[k]) = "Heading"
          /\ LevelOf(paragraphs[j]) >= LevelOf(paragraphs[k])

(***************************************************************************)
(* C7: the chunkIndex values of the chunks emitted so far are 0..n-1 in    *)
(* emission order.                                                         *)
(***************************************************************************)
C7_ChunkIndexContiguous ==
    \A c \in 1..Len(chunks) : chunks[c].chunkIndex = c - 1

\* a run that emitted three chunks
C7_Witness == pc = "done" /\ Len(chunks) >= 3

(***************************************************************************)
(* C8: (for a valid maxChunkTokens > 0) paragraphStart is the original     *)
(* index of the first paragraph in the chunk and paragraphEnd that of the  *)
(* last one.                                                               *)
(***************************************************************************)
C8_ParagraphRangeIsExact ==
    max_chunk_tokens > 0 =>
    /\ HistoryMatches
    /\ \A c \in 1..Len(chunks) :
          /\ chunks[c].paragraphStart = flushed[c][1].index
          /\ chunks[c].paragraphEnd = Last(flushed[c]).index

(***************************************************************************)
(* C9: every emitted chunk has paragraphStart <= paragraphEnd.             *)
(***************************************************************************)
C9_ParagraphStartNotAfterEnd ==
    \A c \in 1..Len(chunks) : chunks[c].paragraphStart <= chunks[c].paragraphEnd

\* a run with a size split of a one-paragraph accumulation (start = end), a
\* chunk flushed by a heading and a chunk that began with an overlap window
C9_Witness ==
    /\ pc = "done"
    /\ overlap_paragraphs > 0
    /\ \E c \in 1..Len(chunks) :
          SizeSplit(c) /\ chunks[c].paragraphStart = chunks[c].paragraphEnd
    /\ \E c \in 1..Len(chunks) :
          ~SizeSplit(c) /\ chunks[c].paragraphEnd + 1 < Len(paragraphs)
    /\ \E c \in 2..Len(chunks) :
          SizeSplit(c - 1) /\ chunks[c].paragraphStart <= chunks[c - 1].paragraphEnd

(***************************************************************************)
(* C10: scanning an Ignored paragraph leaves the accumulation, its start,  *)
(* the hierarchy stack and the chunk list unchanged, also when the style   *)
(* carries a heading level; no Ignored paragraph is in any accumulation or *)
(* chunk.                                                                  *)
(***************************************************************************)
NoIgnoredText ==
    /\ HistoryMatches
    /\ \A k \in 1..Len(current_chunk_paragraphs) :
           RoleOf(current_chunk_paragraphs[k]) # "Ignored"
    /\ \A c \in 1..Len(flushed) : \A k \in 1..Len(flushed[c]) :
           RoleOf(flushed[c][k]) # "Ignored"

C10_IgnoredParagraphChangesNothing ==
    /\ [][ Scanning("Ignored") =>
             UNCHANGED << current_chunk_paragraphs, current_chunk_start,
                          current_hierarchy, chunks >> ]_vars
    /\ []NoIgnoredText

\* a run has ended in which an Ignored paragraph carrying a heading level was
\* scanned with a non-empty accumulation and stack, and then lay inside the
\* overlap window of a size split
C10_Witness ==
    /\ pc = "done"
    /\ overlap_paragraphs >= 2
    /\ \E j \in 2..(Len(paragraphs) - 1) :
          /\ RoleOf(paragraphs[j]) = "Ignored"
          /\ style_mapping[paragraphs[j].style].headingLevel # None
          /\ RoleOf(paragraphs[j - 1]) = "Heading"
          /\ RoleOf(paragraphs[j + 1]) = "Body"
          /\ \E c \in 1..Len(chunks) :
                SizeSplit(c) /\ Last(flushed[c]) = paragraphs[j + 1]

(***************************************************************************)
(* C11: a run on the document with its Ignored paragraphs removed emits    *)
(* the same number of chunks, with the same content and the same hierarchy *)
(* tags, as the run on the document itself (for a valid maxChunkTokens).   *)
(***************************************************************************)
\* the document re-read without its Ignored paragraphs
WithoutIgnored ==
    LET kept == SelectSeq(paragraphs, LAMBDA p : RoleOf(p) # "Ignored")
    IN  [ k \in 1..Len(kept) |-> [ kept[k] EXCEPT !.index = k - 1 ] ]

\* content and hierarchy tags of a chunk list
Tagged(chs) ==
    [ c \in 1..Len(chs) |->
        << chs[c].content, chs[c].hierarchyPath, chs[c].hierarchyJson,
           chs[c].hierarchyLevel >> ]

C11_IgnoredParagraphsInvisible ==
    (pc = "done" /\ max_chunk_tokens > 0) =>
        Tagged(chunks) =
            Tagged(chunk_document(WithoutIgnored, style_mapping, max_chunk_tokens,
                                  overlap_paragraphs))

(***************************************************************************)
(* C12: a call with maxChunkTokens <= 0 is rejected before any paragraph   *)
(* is scanned: it scans nothing, emits no chunk and does not return a      *)
(* chunk list.                                                             *)
(***************************************************************************)
C12_NonPositiveLimitRejected ==
    max_chunk_tokens <= 0 => (i = 0 /\ chunks = << >> /\ pc # "done")

HeadingsOf(paras) == SelectSeq(paras, LAMBDA p : RoleOf(p) = "Heading")

AllIgnored == \A k \in 1..Len(paragraphs) : RoleOf(paragraphs[k]) = "Ignored"

C14_TerminatesWithChunkList ==
    /\ <>(pc = "done")
    /\ [][ (i' = i + 1 /\ pc' = "loop") \/ (i = Len(paragraphs) /\ pc' = "done") ]_vars
    /\ [](pc = "done" =>
            /\ DOMAIN chunks = 1..Len(chunks)
            /\ current_chunk_paragraphs = << >>
            /\ (AllIgnored => chunks = << >>))

\* a call on a non-empty document of Ignored paragraphs has returned
C14_Witness ==
    /\ pc = "done"
    /\ Len(paragraphs) >= 2
    /\ AllIgnored
    /\ chunks = << >>

(***************************************************************************)
(* C15: the returned chunk list is a function of the paragraphs, the       *)
(* mapping and the options alone (every run on them returns the list the   *)
(* function gives, chunkHash included), and chunkHash is a function of     *)
(* content alone: chunks of equal content, at any position, carry equal    *)
(* chunkHash.                                                              *)
(***************************************************************************)
C15_DeterministicAndHashPure ==
    /\ pc = "done" =>
          chunks = chunk_document(paragraphs, style_mapping, max_chunk_tokens,
                                  overlap_paragraphs)
    /\ \A c, d \in 1..Len(chunks) :
          chunks[c].content = chunks[d].content => chunks[c].chunkHash = chunks[d].chunkHash
    /\ \A c \in 1..Len(chunks) : chunks[c].chunkHash = << "sha256[:16]", chunks[c].content >>

\* a run has returned two chunks of equal content at different positions
C15_Witness ==
    /\ pc = "done"
    /\ \E c, d \in 1..Len(chunks) :
          /\ c < d
          /\ chunks[c].content = chunks[d].content
          /\ chunks[c].chunkIndex # chunks[d].chunkIndex

(***************************************************************************)
(* C16: a chunk has an empty hierarchyPath exactly when no Heading         *)
(* paragraph was applied to the stack before the chunk was flushed, and    *)
(* the stack, once non-empty, stays non-empty.                             *)
(***************************************************************************)
\* no Heading paragraph among those scanned so far
NoHeadingApplied == \A k \in 1..i : RoleOf(paragraphs[k]) # "Heading"

C16_EmptyPathIffNoHeadingYet ==
    /\ [][ Len(chunks') > Len(chunks) =>
              (Last(chunks').hierarchyPath = "" <=> NoHeadingApplied) ]_vars
    /\ [][ current_hierarchy # << >> => current_hierarchy' # << >> ]_vars
    /\ [](NoHeadingApplied <=> current_hierarchy = << >>)

\* a run has returned a chunk without a path, then chunks with one, after a
\* heading that closed every open section
C16_Witness ==
    /\ pc = "done"
    /\ Len(chunks) >= 3
    /\ chunks[1].hierarchyPath = ""
    /\ chunks[2].hierarchyPath # ""
    /\ \E j, k \in 1..Len(paragraphs) :
          /\ j < k
          /\ RoleOf(paragraphs[j]) = "Heading" /\ RoleOf(paragraphs[k]) = "Heading"
          /\ LevelOf(paragraphs[j]) >= LevelOf(paragraphs[k])

(***************************************************************************)
(* C17: in every emitted chunk hierarchyPath is the names of hierarchyJson *)
(* joined by " > " in list order, hierarchyLevel is the level of the last  *)
(* entry, and the path is empty and the level None exactly when the list   *)
(* is empty.                                                               *)
(***************************************************************************)
RECURSIVE NamesJoined(_)
NamesJoined(list) ==
    IF list = << >> THEN ""
    ELSE IF Len(list) = 1 THEN list[1].name
    ELSE NamesJoined(SubSeq(list, 1, Len(list) - 1)) \o " > " \o Last(list).name

C17_HierarchyFieldsAgree ==
    \A c \in 1..Len(chunks) :
       LET list == chunks[c].hierarchyJson IN
       /\ chunks[c].hierarchyPath = NamesJoined(list)
       /\ list # << >> => chunks[c].hierarchyLevel = Some(Last(list).level)
       /\ (list = << >>) <=> (chunks[c].hierarchyPath = "")
       /\ (list = << >>) <=> (chunks[c].hierarchyLevel = None)

\* a run has returned a chunk without hierarchy and a chunk two levels deep
C17_Witness ==
    /\ pc = "done"
    /\ \E c \in 1..Len(chunks) : chunks[c].hierarchyJson = << >>
    /\ \E c \in 1..Len(chunks) :
          /\ Len(chunks[c].hierarchyJson) >= 2
          /\ chunks[c].hierarchyJson[1].level # Last(chunks[c].hierarchyJson).level

(***************************************************************************)
(* C18: a paragraph whose style is absent from the mapping is handled as   *)
(* Body, also when the detector finds a heading level in the style name:   *)
(* it is appended to the accumulation (which a size split may flush at     *)
(* once) and the hierarchy stack does not change.                          *)
(***************************************************************************)
C18_UnmappedStyleIsBody ==
    [][ (InLoop /\ para.style \notin DOMAIN style_mapping) =>
          /\ current_hierarchy' = current_hierarchy
          /\ \/ /\ current_chunk_paragraphs' = Append(current_chunk_paragraphs, para)
                /\ chunks' = chunks
             \/ /\ Len(chunks') = Len(chunks) + 1
                /\ Last(flushed') = Append(current_chunk_paragraphs, para)
                /\ Last(chunks').hierarchyJson = current_hierarchy ]_vars

\* a paragraph of an unconfigured style in which the detector finds a heading
\* level has just been appended under an open section
C18_Witness ==
    /\ pc = "loop" /\ i > 1
    /\ paragraphs[i].style \notin DOMAIN style_mapping
    /\ detect_heading_level(paragraphs[i].style) = Some(2)
    /\ current_chunk_paragraphs # << >>
    /\ Last(current_chunk_paragraphs) = paragraphs[i]
    /\ Len(current_chunk_paragraphs) >= 2
    /\ current_hierarchy # << >>

(***************************************************************************)
(* C19: a paragraph whose style is configured with the heading level -1    *)
(* is treated as Ignored: scanning it changes neither the chunk list, nor  *)
(* the accumulation, nor the hierarchy stack.                              *)
(***************************************************************************)
C19_SentinelLevelIsIgnored ==
    [][ (InLoop /\ max_chunk_tokens > 0
           /\ para.style \in DOMAIN style_mapping
           /\ style_mapping[para.style].headingLevel = Some(-1)) =>
          UNCHANGED << chunks, current_chunk_paragraphs, current_hierarchy >> ]_vars

(***************************************************************************)
(* C20: get_chunk_tree attaches the preview of every row it has placed to  *)
(* exactly one node: the root when the row's hierarchy list is empty,      *)
(* otherwise the node whose names from the root down are the list's names; *)
(* no two nodes have the same names from the root, siblings are in the     *)
(* order their names were first seen, two rows are on the same node        *)
(* exactly when their name sequences are equal whatever their levels, and  *)
(* the tree holds as many previews as rows were placed.                    *)
(***************************************************************************)
\* the names of the hierarchy list a row was stored with
StoredNames(row) ==
    IF row.hierarchy_json = << >> THEN << >>
    ELSE [ k \in 1..Len(row.hierarchy_json[1].items) |-> row.hierarchy_json[1].items[k].name ]

\* the text shown for a content: at most its first 100 characters
Shown(content) ==
    IF Len(content) <= 100 THEN content ELSE SubSeq(content, 1, 100) \o "..."

\* the chunk list at a place of the tree: 0 is the root, k > 0 the k-th node
PreviewsAt(place) == IF place = 0 THEN tree.chunks ELSE tree.nodes[place].chunks

RECURSIVE NamesTo(_)
\* the names from the root down to a place
NamesTo(place) ==
    IF place = 0 THEN << >>
    ELSE Append(NamesTo(tree.nodes[place].parent), tree.nodes[place].name)

\* the places holding a preview of the row
PlacesOf(row) ==
    { place \in 0..Len(tree.nodes) :
         \E k \in 1..Len(PreviewsAt(place)) : PreviewsAt(place)[k].id = row.id }

RECURSIVE CountPreviews(_)
\* the number of previews at the places 0..place
CountPreviews(place) ==
    Len(PreviewsAt(place)) + (IF place = 0 THEN 0 ELSE CountPreviews(place - 1))

IsPrefix(s, t) == Len(s) <= Len(t) /\ SubSeq(t, 1, Len(s)) = s

\* the placed rows whose list passes through a node
RowsThrough(place) ==
    { r \in 1..chunk_pos : IsPrefix(NamesTo(place), StoredNames(stored_chunks[r])) }

FirstSeen(place) == CHOOSE r \in RowsThrough(place) : \A q \in RowsThrough(place) : r <= q

C20_EachChunkOnTheNodeOfItsNames ==
    /\ \A r \in 1..chunk_pos :
          LET row == stored_chunks[r]
          IN  /\ \E place \in 0..Len(tree.nodes) :
                    /\ PlacesOf(row) = { place }
                    /\ NamesTo(place) = StoredNames(row)
                    /\ Cardinality({ k \in 1..Len(PreviewsAt(place)) :
                                        PreviewsAt(place)[k].id = row.id }) = 1
                    /\ \A k \in 1..Len(PreviewsAt(place)) :
                          PreviewsAt(place)[k].id = row.id =>
                             PreviewsAt(place)[k].preview = Shown(row.content)
              /\ (0 \in PlacesOf(row)) <=> (StoredNames(row) = << >>)
    /\ \A r, q \in 1..chunk_pos :
          (PlacesOf(stored_chunks[r]) = PlacesOf(stored_chunks[q]))
             <=> (StoredNames(stored_chunks[r]) = StoredNames(stored_chunks[q]))
    /\ \A j, k \in 1..Len(tree.nodes) :
          /\ RowsThrough(k) # { }
          /\ j # k => NamesTo(j) # NamesTo(k)
          /\ (j < k /\ tree.nodes[j].parent = tree.nodes[k].parent) =>
                FirstSeen(j) < FirstSeen(k)
    /\ CountPreviews(Len(tree.nodes)) = chunk_pos

\* the tree has been returned with two chunks on one node whose lists have the
\* same names and different levels, the second chunk shown by its first 100
\* characters
C20_Witness ==
    /\ pc = "returned" /\ chunk_pos = 2
    /\ \E k \in 1..Len(tree.nodes) : Len(tree.nodes[k].chunks) = 2
    /\ stored_chunks[1].hierarchy_json # stored_chunks[2].hierarchy_json
    /\ Len(stored_chunks[2].content) > 100

(***************************************************************************)
(* C21 as stated: two placed chunks whose hierarchy lists have the same    *)
(* length d > 0 and the same name at position d are on the same node, also *)
(* when names at earlier positions differ.                                 *)
(***************************************************************************)
C21_SameDepthSameNameSameNode ==
    \A r, q \in 1..chunk_pos :
       LET nr == StoredNames(stored_chunks[r])
           nq == StoredNames(stored_chunks[q])
       IN  (Len(nr) = Len(nq) /\ Len(nr) > 0 /\ nr[Len(nr)] = nq[Len(nq)]) =>
              PlacesOf(stored_chunks[r]) = PlacesOf(stored_chunks[q])

\* the levels of the hierarchy list a row was stored with
StoredLevels(row) ==
    IF row.hierarchy_json = << >> THEN << >>
    ELSE [ k \in 1..Len(row.hierarchy_json[1].items) |-> row.hierarchy_json[1].items[k].level ]

(***************************************************************************)
(* C21, amended: two placed chunks whose lists have the same length d > 0  *)
(* are on the same node when the names agree at every position 1..d, also  *)
(* when their levels differ, and on different nodes when the names differ  *)
(* at some position, also when the names at position d agree.              *)
(***************************************************************************)
C21_SameNamesAtEveryDepthSameNode ==
    \A r, q \in 1..chunk_pos :
       LET nr == StoredNames(stored_chunks[r])
           nq == StoredNames(stored_chunks[q])
       IN  (Len(nr) = Len(nq) /\ Len(nr) > 0) =>
              /\ (\A k \in 1..Len(nr) : nr[k] = nq[k]) =>
                    PlacesOf(stored_chunks[r]) = PlacesOf(stored_chunks[q])
              /\ (\E k \in 1..Len(nr) : nr[k] # nq[k]) =>
                    PlacesOf(stored_chunks[r]) \cap PlacesOf(stored_chunks[q]) = { }

\* the tree has been returned with two chunks of depth 2 whose sections share
\* the name at depth 2 under parents of different names: they are on two nodes
C21_Witness ==
    /\ pc = "returned" /\ chunk_pos = 2
    /\ Len(StoredNames(stored_chunks[1])) = 2
    /\ Len(StoredNames(stored_chunks[2])) = 2
    /\ StoredNames(stored_chunks[1])[2] = StoredNames(stored_chunks[2])[2]
    /\ StoredNames(stored_chunks[1])[1] # StoredNames(stored_chunks[2])[1]
    /\ PlacesOf(stored_chunks[1]) # PlacesOf(stored_chunks[2])

(***************************************************************************)
(* C22: get_chunk_tree does not fail on a row whose stored hierarchy JSON  *)
(* is malformed (text that is no JSON, or JSON that is no list of records):*)
(* the row's preview is attached to the root and every other placed row is *)
(* on the node of its names.                                               *)
(***************************************************************************)
Malformed(row) ==
    row.hierarchy_json # << >> /\ row.hierarchy_json[1].json # "array"

C22_MalformedJsonIsOrphan ==
    /\ pc # "raised"
    /\ \A r \in 1..chunk_pos :
          LET row == stored_chunks[r]
          IN  IF Malformed(row) THEN PlacesOf(row) = { 0 }
              ELSE \E place \in 0..Len(tree.nodes) :
                      PlacesOf(row) = { place } /\ NamesTo(place) = StoredNames(row)
    /\ (pc = "returned" => chunk_pos = Len(stored_chunks))

(***************************************************************************)
(* C23: once every process_document request for the document has ended,    *)
(* the document's stored rows are exactly the chunk list of one of the     *)
(* passes, and no two rows share a chunk index.                            *)
(***************************************************************************)
RowsOfPass(r) ==
    [ k \in 1..Len(requests[r].chunks) |-> chunk_row(requests[r].chunks[k]) ]

C23_StoredRowsAreOnePass ==
    (\A r \in Requests : requests[r].pc \in { "done", "failed" }) =>
       /\ \E r \in Requests : chunks_table = RowsOfPass(r)
       /\ \A j, k \in 1..Len(chunks_table) :
             j # k => chunks_table[j].chunk_index # chunks_table[k].chunk_index

(***************************************************************************)
(* C24: the level the detector gives a style name, read case-insensitively,*)
(* is 2 when the name contains "subtitle", 1 when it contains "title" or   *)
(* "titel" and not "subtitle", n when it contains "heading n" or           *)
(* "rubrik n" for n in 1..6, none when it matches no pattern, and always   *)
(* none or in 1..6.                                                        *)
(***************************************************************************)
Digit(n) == SubSeq("123456", n, n)

Has(style_name, pattern) == Contains(ToLower(style_name), pattern)

MatchesNoPattern(style_name) ==
    /\ ~Has(style_name, "title") /\ ~Has(style_name, "titel")
    /\ \A n \in 1..6 : /\ ~Has(style_name, "heading " \o Digit(n))
                       /\ ~Has(style_name, "heading" \o Digit(n))
                       /\ ~Has(style_name, "rubrik " \o Digit(n))

C24_DetectorFollowsPatternTable ==
    pc \in { "analysing", "analysed" } =>
       \A k \in 1..Len(analysis.style_info) :
          LET style_name == analysis.style_info[k].style_name
              level      == analysis.style_info[k].heading_level
          IN  /\ Has(style_name, "subtitle") => level = << 2 >>
              /\ ((Has(style_name, "title") \/ Has(style_name, "titel"))
                     /\ ~Has(style_name, "subtitle")) => level = << 1 >>
              /\ \A n \in 1..6 :
                    (Has(style_name, "heading " \o Digit(n))
                       \/ Has(style_name, "rubrik " \o Digit(n))) => level = << n >>
              /\ MatchesNoPattern(style_name) => level = << >>
              /\ level = << >> \/ (Len(level) = 1 /\ level[1] \in 1..6)

(***************************************************************************)
(* C25: the summary just read puts every row of the document in exactly    *)
(* one class: totalChunks is the number of rows and equals                 *)
(* chunksWithHierarchy + chunksWithoutHierarchy, chunksWithHierarchy is    *)
(* the number of rows whose path is neither NULL nor empty, and all three  *)
(* are 0 for a document without rows.                                      *)
(***************************************************************************)
RowsWithPath ==
    { k \in 1..Len(chunks_table) :
         chunks_table[k].hierarchy_path \notin { << >>, << "" >> } }

C25_SummaryPartitionsChunks ==
    pc = "summarised" =>
       /\ summary[1].totalChunks = Len(chunks_table)
       /\ summary[1].chunksWithHierarchy = Cardinality(RowsWithPath)
       /\ summary[1].totalChunks =
             summary[1].chunksWithHierarchy + summary[1].chunksWithoutHierarchy
       /\ (chunks_table = << >> =>
             summary[1] = [ totalChunks |-> 0, chunksWithHierarchy |-> 0,
                            chunksWithoutHierarchy |-> 0 ])

\* a summary has been read of a document with a NULL-path row and a row with a
\* path
C25_Witness ==
    /\ pc = "summarised"
    /\ \E k \in 1..Len(chunks_table) : chunks_table[k].hierarchy_path = << >>
    /\ \E k \in 1..Len(chunks_table) : chunks_table[k].hierarchy_path = << "A > B" >>
    /\ summary[1].chunksWithHierarchy = 1
    /\ summary[1].chunksWithoutHierarchy = 1

(***************************************************************************)
(* C26: scanning a Heading paragraph (name, level) turns the hierarchy     *)
(* stack into the entries of the previous stack whose level is below the   *)
(* heading's, in their previous order, followed by one new top entry with  *)
(* the first 100 characters of the name and the level: every entry of a    *)
(* level >= the heading's is removed and no entry under a kept one is.     *)
(***************************************************************************)
C26_HeadingKeepsShallowerEntries ==
    [][ Scanning("Heading") =>
          /\ current_hierarchy' =
                SelectSeq(current_hierarchy, LAMBDA e : e.level < LevelOf(para))
                   \o << [ name |-> First100(para.text), level |-> LevelOf(para) ] >>
          /\ \A k \in 1..(Len(current_hierarchy') - 1) :
                /\ current_hierarchy'[k] = current_hierarchy[k]
                /\ current_hierarchy[k].level < LevelOf(para)
          /\ \A k \in Len(current_hierarchy')..Len(current_hierarchy) :
                current_hierarchy[k].level >= LevelOf(para) ]_vars

\* a long heading of level 1 has closed a section of level 2 and kept the
\* section of level -1 under it
C26_Witness ==
    /\ i = 3 /\ Len(paragraphs) = 3
    /\ paragraphs[1].style = "Appendix"
    /\ paragraphs[2].style = "Heading 2"
    /\ paragraphs[3].style = "Title" /\ Len(paragraphs[3].text) > 100
    /\ Len(current_hierarchy) = 2
    /\ current_hierarchy[1].level = -1
    /\ current_hierarchy[2] = [ name |-> SubSeq(paragraphs[3].text, 1, 100), level |-> 1 ]

(***************************************************************************)
(* C27: every emitted chunk is tagged with the section of everything in    *)
(* it: for each paragraph the chunk was built from, the chunk's            *)
(* hierarchyJson is the hierarchy stack that was in effect right after     *)
(* that paragraph was scanned, so overlap reseeding carries no Body text   *)
(* from before a heading into a chunk tagged with the heading's section.   *)
(***************************************************************************)
RECURSIVE StackAfter(_)
\* the stack in effect after the first n paragraphs were scanned
StackAfter(n) ==
    IF n = 0 THEN << >>
    ELSE IF RoleOf(paragraphs[n]) = "Heading"
         THEN SelectSeq(StackAfter(n - 1),
                        LAMBDA e : e.level < LevelOf(paragraphs[n]))
                 \o << [ name  |-> First100(paragraphs[n].text),
                         level |-> LevelOf(paragraphs[n]) ] >>
         ELSE StackAfter(n - 1)

C27_ChunkTaggedWithSectionOfItsParagraphs ==
    (HistoryMatches /\ max_chunk_tokens > 0) =>
       \A c \in 1..Len(chunks) :
          \A k \in 1..Len(flushed[c]) :
             chunks[c].hierarchyJson = StackAfter(flushed[c][k].index + 1)

(***************************************************************************)
(* C28: no non-Ignored paragraph is lost or reordered.  For any            *)
(* configuration, when the call has returned every non-Ignored paragraph   *)
(* is in at least one chunk, and each chunk lists its paragraphs in        *)
(* strictly increasing original index; with overlapParagraphs = 0 the      *)
(* chunks' paragraphs concatenated in chunk-index order are exactly the    *)
(* non-Ignored paragraphs in original order (each in exactly one chunk).   *)
(***************************************************************************)
RECURSIVE ParagraphsThrough(_)
\* the paragraphs of the first n chunks, concatenated in chunk order
ParagraphsThrough(n) ==
    IF n = 0 THEN << >> ELSE ParagraphsThrough(n - 1) \o flushed[n]

\* the non-Ignored paragraphs, in original order
KeptParagraphs == SelectSeq(paragraphs, LAMBDA p : RoleOf(p) # "Ignored")

C28_NoParagraphLostOrReordered ==
    HistoryMatches =>
       /\ \A c \in 1..Len(flushed) :
             \A k, l \in 1..Len(flushed[c]) :
                k < l => flushed[c][k].index < flushed[c][l].index
       /\ pc = "done" =>
             /\ \A n \in 1..Len(paragraphs) :
                   RoleOf(paragraphs[n]) # "Ignored" =>
                      \E c \in 1..Len(flushed) :
                         \E k \in 1..Len(flushed[c]) : flushed[c][k] = paragraphs[n]
             /\ overlap_paragraphs = 0 =>
                   ParagraphsThrough(Len(flushed)) = KeptParagraphs

\* a returned call with overlap whose document has an Ignored paragraph
\* among kept ones, split by size with a paragraph repeated in two chunks
C28_Witness ==
    /\ pc = "done"
    /\ HistoryMatches
    /\ overlap_paragraphs > 0
    /\ Len(KeptParagraphs) >= 2
    /\ Len(KeptParagraphs) < Len(paragraphs)
    /\ \E c, d \in 1..Len(flushed) :
          /\ c < d
          /\ Len(flushed[d]) >= 2
          /\ \E k \in 1..Len(flushed[c]) : flushed[c][k] = flushed[d][1]

(***************************************************************************)
(* C29: every emitted chunk holds at least one paragraph that no earlier   *)
(* chunk of the same call holds, for any overlapParagraphs: no chunk, the  *)
(* final one included, is made only of overlap text already emitted, and   *)
(* no two chunks of one call are built from the same paragraphs.           *)
(***************************************************************************)
\* paragraph p is one of the paragraphs chunk c was built from
HeldBy(c, p) == \E k \in 1..Len(flushed[c]) : flushed[c][k] = p

C29_EveryChunkHoldsNewParagraph ==
    HistoryMatches =>
       /\ \A c \in 1..Len(flushed) :
             \E k \in 1..Len(flushed[c]) :
                \A d \in 1..(c - 1) : ~HeldBy(d, flushed[c][k])
       /\ \A c, d \in 1..Len(flushed) :
             c # d => flushed[c] # flushed[d]

(***************************************************************************)
(* C30: in the tree get_chunk_tree builds from the chunks of one           *)
(* chunk_document pass, every node below the root's children has a level   *)
(* strictly greater than its parent's level, whatever the order of the     *)
(* heading levels in the document (the same heading name reused at         *)
(* different levels included).                                             *)
(***************************************************************************)
C30_LevelsIncreaseDownTheTree ==
    \A k \in 1..Len(tree.nodes) :
       tree.nodes[k].parent # 0 =>
          tree.nodes[k].level > tree.nodes[tree.nodes[k].parent].level

====
